---- MODULE Spec2Model ----
(***************************************************************************)
(* Topic usage cache (app/services/script_cache.py): a history of          *)
(* (channel, topic, timestamp) records held in memory by a TopicCache,     *)
(* backed by one JSON document, with a 90-day retention window and the     *)
(* unused-then-least-used topic selection built on it.                     *)
(***************************************************************************)
EXTENDS Integers, Sequences, FiniteSets, TLC

VARIABLES
    now,          \* the local clock read by datetime.now()
    disk,         \* the persisted document at cache_file
    history,      \* self.history of the live TopicCache
    pc,           \* "start": no store yet, "ready": constructed, "failed": __init__ raised
    op,           \* the call that made the last step, with its arguments
    result,       \* what that call returned
    error,        \* the exception that call propagated, or "none"
    pool,         \* the list handed to the last random.choice of that call
    writeFailed,  \* a write of the document failed since the store's construction began
    calls,        \* the usages the store was given: by its load, then by record_usage
    instance,     \* the global _cache_instance: 0 for None, else an index of stores
    stores,       \* self.history of each TopicCache the threads constructed
    tpc,          \* each thread's position in get_topic_cache()
    ref           \* what each thread's last get_topic_cache() returned, 0 before

vars == <<now, disk, history, pc, op, result, error, pool, writeFailed, calls,
          instance, stores, tpc, ref>>
\* The state of the process-wide accessor and of the stores made through it.
sharedVars == <<instance, stores, tpc, ref>>

----------------------------------------------------------------------------
(* Bounds of the exploration.                                              *)

MaxHist == 2       \* record_usage is explored while the history is shorter
MaxDoc == 1        \* records in a document found at start
MaxQueryHist == 3  \* records in a history the queries are applied to
MaxAvail == 2      \* length of available_topics
MaxLimit == 2      \* the limit of get_recent_topics
DayWidth == 3      \* digits of the date field of a timestamp
MaxSharedCalls == 2  \* record_usage calls of the threads sharing get_topic_cache()
MaxPruneHist == 3  \* records in a history the pruning pass is applied to

Channels == {"chA", "chB"}
Topics == {"", "t1", "t2"}
\* The threads that call get_topic_cache().
Threads == {"th1", "th2"}

----------------------------------------------------------------------------
(* Time: a datetime is seconds and microseconds; a timedelta likewise.     *)

RETENTION_DAYS == 90
SecondsPerDay == 24 * 60 * 60
MicrosPerSecond == 1000 * 1000
RetentionSeconds == RETENTION_DAYS * SecondsPerDay

HalfSecond == [s |-> 0, us |-> MicrosPerSecond \div 2]
RetentionDelta == [s |-> RetentionSeconds, us |-> 0]

DtLess(a, b) == a.s < b.s \/ (a.s = b.s /\ a.us < b.us)
DtGreater(a, b) == DtLess(b, a)
DtAdd(a, d) ==
    LET us == a.us + d.us
    IN  [s |-> a.s + d.s + (us \div MicrosPerSecond), us |-> us % MicrosPerSecond]
DtSub(a, d) ==
    LET us == a.us - d.us
    IN  IF us < 0 THEN [s |-> a.s - d.s - 1, us |-> us + MicrosPerSecond]
                  ELSE [s |-> a.s - d.s, us |-> us]

RECURSIVE DtTimes(_, _)
DtTimes(d, k) == IF k = 0 THEN [s |-> 0, us |-> 0] ELSE DtAdd(DtTimes(d, k - 1), d)

\* The clock at start: one second into the first day after a full window.
T0 == [s |-> RetentionSeconds + 1, us |-> 0]

\* The clock values explored: half-second steps within an era, eras one
\* retention window apart.
Clock ==
    { DtAdd(DtAdd(T0, DtTimes(HalfSecond, k)), DtTimes(RetentionDelta, e)) :
        k \in 0..1, e \in 0..1 }

----------------------------------------------------------------------------
(* Timestamps as text. datetime.isoformat() writes fixed-width, zero-padded *)
(* fields, most significant first, and leaves the fraction out when the     *)
(* microsecond is 0; a string is a sequence of characters, compared by code *)
(* point. The calendar date YYYY-MM-DD is written here as one day number of *)
(* DayWidth digits.                                                         *)

DigitChars == <<"0", "1", "2", "3", "4", "5", "6", "7", "8", "9">>
\* The characters of a timestamp in code-point order.
CharOrder == <<".", "0", "1", "2", "3", "4", "5", "6", "7", "8", "9", ":", "T", "x">>
Ord(c) == CHOOSE i \in 1..Len(CharOrder) : CharOrder[i] = c

RECURSIVE Pow10(_)
Pow10(n) == IF n = 0 THEN 1 ELSE 10 * Pow10(n - 1)

Digits(n, w) == [i \in 1..w |-> DigitChars[((n \div Pow10(w - i)) % 10) + 1]]

IsoFormat(t) ==
    LET day == t.s \div SecondsPerDay
        rem == t.s % SecondsPerDay
        hh  == rem \div 3600
        mm  == (rem % 3600) \div 60
        ss  == rem % 60
    IN  Digits(day, DayWidth) \o <<"T">> \o Digits(hh, 2) \o <<":">> \o Digits(mm, 2)
          \o <<":">> \o Digits(ss, 2)
          \o (IF t.us = 0 THEN <<>> ELSE <<".">> \o Digits(t.us, 6))

DigitSet == { DigitChars[i] : i \in 1..Len(DigitChars) }
IsDigit(c) == c \in DigitSet
DigitValue(c) ==
    CASE c = "0" -> 0 [] c = "1" -> 1 [] c = "2" -> 2 [] c = "3" -> 3 [] c = "4" -> 4
      [] c = "5" -> 5 [] c = "6" -> 6 [] c = "7" -> 7 [] c = "8" -> 8 [] c = "9" -> 9

\* The number written in s[i..j].
RECURSIVE Number(_, _, _)
Number(s, i, j) == IF j < i THEN 0 ELSE 10 * Number(s, i, j - 1) + DigitValue(s[j])

AllDigits(s, i, j) == \A k \in i..j : IsDigit(s[k])

\* datetime.fromisoformat accepts the text isoformat writes; anything else
\* raises ValueError.
WellFormed(s) ==
    LET w == DayWidth
    IN  /\ Len(s) \in {w + 9, w + 16}
        /\ AllDigits(s, 1, w)
        /\ s[w + 1] = "T"
        /\ AllDigits(s, w + 2, w + 3) /\ Number(s, w + 2, w + 3) < 24
        /\ s[w + 4] = ":"
        /\ AllDigits(s, w + 5, w + 6) /\ Number(s, w + 5, w + 6) < 60
        /\ s[w + 7] = ":"
        /\ AllDigits(s, w + 8, w + 9) /\ Number(s, w + 8, w + 9) < 60
        /\ Len(s) = w + 16 => (s[w + 10] = "." /\ AllDigits(s, w + 11, w + 16))

Parse(s) ==
    LET w == DayWidth
    IN  [s  |-> Number(s, 1, w) * SecondsPerDay + Number(s, w + 2, w + 3) * 3600
                  + Number(s, w + 5, w + 6) * 60 + Number(s, w + 8, w + 9),
         us |-> IF Len(s) = w + 16 THEN Number(s, w + 11, w + 16) ELSE 0]

\* The datetimes that occur, and their texts: formatting and parsing are
\* evaluated once for each and looked up afterwards.
Times == Clock \cup { DtSub(T0, DtTimes(HalfSecond, k)) : k \in 1..2 }
IsoText == [t \in Times |-> IsoFormat(t)]
Stamps == { IsoText[t] : t \in Times }
Parsed == [s \in Stamps |-> Parse(s)]

\* datetime.isoformat()
isoformat(t) == IF t \in Times THEN IsoText[t] ELSE IsoFormat(t)
\* datetime.fromisoformat(s) returns a datetime
IsIsoFormat(s) == s \in Stamps \/ WellFormed(s)
\* datetime.fromisoformat(s)
fromisoformat(s) == IF s \in Stamps THEN Parsed[s] ELSE Parse(s)

\* str < str: the first differing character decides, a proper prefix is smaller.
StrLess(a, b) ==
    \E i \in 1..Len(b) :
        /\ i <= Len(a) + 1
        /\ \A j \in 1..(i - 1) : a[j] = b[j]
        /\ (i = Len(a) + 1 \/ Ord(a[i]) < Ord(b[i]))

----------------------------------------------------------------------------
(* Values returned to the caller.                                          *)

NoneVal == [kind |-> "None"]
\* The call raised: nothing is returned.
NoReturn == [kind |-> "raised"]
StrVal(t) == [kind |-> "str", val |-> t]
IntVal(n) == [kind |-> "int", val |-> n]
ListVal(l) == [kind |-> "list", val |-> l]

\* Python truth of an Optional[str]: None and the empty string are false.
Truthy(v) == v.kind = "str" /\ v.val # ""

----------------------------------------------------------------------------
(* The persisted document.                                                 *)

Entry(c, t, ts) == [channel |-> c, topic |-> t, timestamp |-> ts]

NoFile == [kind |-> "absent"]
\* Unreadable, not JSON, not an object, or its history has no length.
Corrupt == [kind |-> "corrupt"]
Doc(lu, h) == [kind |-> "doc", last_updated |-> lu, history |-> h]
DocWithoutHistory(lu) == [kind |-> "doc", last_updated |-> lu]

SeqsUpTo(S, n) == UNION { [1..k -> S] : k \in 0..n }

DocTimes == {DtSub(T0, HalfSecond), T0}
UsagePairs == { <<"chA", t>> : t \in Topics } \cup { <<"chB", "t1">> }
GoodEntries == { Entry(p[1], p[2], isoformat(d)) : p \in UsagePairs, d \in DocTimes }
\* A record without a timestamp, and one whose timestamp is not a date.
BadEntries == { [channel |-> "chA", topic |-> "t1"], Entry("chA", "t1", <<"x">>) }

StartDocs ==
    {NoFile, Corrupt, DocWithoutHistory(isoformat(T0))}
      \cup { Doc(isoformat(T0), h) : h \in SeqsUpTo(GoodEntries, MaxDoc) }
      \cup { Doc(isoformat(T0), h \o <<b>>) :
               h \in SeqsUpTo(GoodEntries, MaxDoc - 1), b \in BadEntries }

\* What open() and json.dump() of _save_cache can do: succeed, fail before the
\* file is touched (mkdir or open raises), or fail after open() truncated it.
WriteOutcomes == {"ok", "open_failed", "dump_failed"}

\* _save_cache without its try/except.
SaveCacheUncaught(hist, t, d, outcome) ==
    [disk   |-> CASE outcome = "ok" -> Doc(isoformat(t), hist)
                  [] outcome = "open_failed" -> d
                  [] outcome = "dump_failed" -> Corrupt,
     raised |-> IF outcome = "ok" THEN "none" ELSE "OSError"]
\* _save_cache that writes nothing.
SaveCacheSkipped(hist, t, d, outcome) ==
    [disk |-> IF outcome = "dump_failed" THEN Corrupt ELSE d, raised |-> "none"]

\* _save_cache appending the newest record to the stored history.
SaveCacheMerging(hist, t, d, outcome) ==
    LET stored == IF d.kind = "doc" /\ "history" \in DOMAIN d THEN d.history ELSE <<>>
        newest == IF hist = <<>> THEN <<>> ELSE <<hist[Len(hist)]>>
    IN  [disk   |-> CASE outcome = "ok" -> Doc(isoformat(t), stored \o newest)
                      [] outcome = "open_failed" -> d
                      [] outcome = "dump_failed" -> Corrupt,
         raised |-> "none"]

\* _save_cache: the document afterwards, and the exception leaving the method.
SaveCache(hist, t, d, outcome) ==
    [disk   |-> CASE outcome = "ok" -> Doc(isoformat(t), hist)
                  [] outcome = "open_failed" -> d
                  [] outcome = "dump_failed" -> Corrupt,
     raised |-> "none"]

\* _load_cache reading the history last record first.
LoadCacheReversed(d) ==
    IF d.kind = "doc" /\ "history" \in DOMAIN d
    THEN [i \in 1..Len(d.history) |-> d.history[Len(d.history) + 1 - i]]
    ELSE <<>>

\* _load_cache up to the call of _cleanup_expired: self.history after the
\* exists() test and the try/except.
LoadCache(d) ==
    IF d.kind = "doc" /\ "history" \in DOMAIN d THEN d.history ELSE <<>>

\* The exception the comprehension of _cleanup_expired raises: that of the
\* first entry it cannot read.
EntryError(e) ==
    IF "timestamp" \notin DOMAIN e THEN "KeyError"
    ELSE IF ~IsIsoFormat(e.timestamp) THEN "ValueError"
    ELSE "none"
CleanupError(hist) ==
    IF \A i \in 1..Len(hist) : EntryError(hist[i]) = "none" THEN "none"
    ELSE EntryError(hist[CHOOSE i \in 1..Len(hist) :
                           /\ EntryError(hist[i]) # "none"
                           /\ \A j \in 1..(i - 1) : EntryError(hist[j]) = "none"])

Cutoff(t) == DtSub(t, RetentionDelta)

\* _cleanup_expired keeping the entry at the cutoff: >= in the place of >.
UnexpiredInclusive(hist, t) ==
    SelectSeq(hist, LAMBDA e : ~DtLess(fromisoformat(e.timestamp), Cutoff(t)))

\* The entries _cleanup_expired keeps at time t.
Unexpired(hist, t) ==
    SelectSeq(hist, LAMBDA e : DtGreater(fromisoformat(e.timestamp), Cutoff(t)))

\* The usages a history stands for.
Usages(hist) ==
    [i \in 1..Len(hist) |->
        [channel |-> hist[i].channel, topic |-> hist[i].topic,
         at |-> fromisoformat(hist[i].timestamp), by |-> "load"]]

----------------------------------------------------------------------------
(* Queries.                                                                *)

\* get_usage_count without the test of the channel.
GetUsageCountAnyChannel(hist, channel, topic) ==
    Len(SelectSeq(hist, LAMBDA e : e.topic = topic))

\* get_usage_count
GetUsageCount(hist, channel, topic) ==
    Len(SelectSeq(hist, LAMBDA e : e.channel = channel /\ e.topic = topic))

\* list.sort(key=timestamp) without reverse=True: stable, ascending.
InsertAsc(srt, e) ==
    LET k == Cardinality({ i \in 1..Len(srt) : ~StrLess(e.timestamp, srt[i].timestamp) })
    IN  SubSeq(srt, 1, k) \o <<e>> \o SubSeq(srt, k + 1, Len(srt))
RECURSIVE SortAsc(_)
SortAsc(s) ==
    IF s = <<>> THEN <<>>
    ELSE InsertAsc(SortAsc(SubSeq(s, 1, Len(s) - 1)), s[Len(s)])

\* list.sort(key=timestamp, reverse=True): stable, descending.
InsertDesc(srt, e) ==
    LET k == Cardinality({ i \in 1..Len(srt) : ~StrLess(srt[i].timestamp, e.timestamp) })
    IN  SubSeq(srt, 1, k) \o <<e>> \o SubSeq(srt, k + 1, Len(srt))
RECURSIVE SortDesc(_)
SortDesc(s) ==
    IF s = <<>> THEN <<>>
    ELSE InsertDesc(SortDesc(SubSeq(s, 1, Len(s) - 1)), s[Len(s)])

\* The loop of get_recent_topics from entry i on.
RECURSIVE RecentLoop(_, _, _, _, _)
RecentLoop(entries, i, seen, res, limit) ==
    IF i > Len(entries) THEN res
    ELSE IF entries[i].topic \notin seen
         THEN LET res2 == Append(res, entries[i].topic)
              IN  IF Len(res2) >= limit THEN res2
                  ELSE RecentLoop(entries, i + 1, seen \cup {entries[i].topic}, res2, limit)
         ELSE RecentLoop(entries, i + 1, seen, res, limit)

\* get_recent_topics
GetRecentTopics(hist, channel, limit) ==
    LET channel_entries == SelectSeq(hist, LAMBDA e : e.channel = channel)
    IN  RecentLoop(SortDesc(channel_entries), 1, {}, <<>>, limit)

\* get_unused_topic with the membership test inverted.
UnusedListInverted(hist, channel, available_topics) ==
    LET used_topics == { hist[i].topic : i \in { j \in 1..Len(hist) : hist[j].channel = channel } }
    IN  SelectSeq(available_topics, LAMBDA t : t \in used_topics)
\* get_unused_topic with the channel filter left out.
UnusedListAnyChannel(hist, channel, available_topics) ==
    LET used_topics == { hist[i].topic : i \in 1..Len(hist) }
    IN  SelectSeq(available_topics, LAMBDA t : t \notin used_topics)

\* get_unused_topic: the list random.choice draws from (empty: returns None).
UnusedList(hist, channel, available_topics) ==
    LET used_topics == { hist[i].topic : i \in { j \in 1..Len(hist) : hist[j].channel = channel } }
    IN  SelectSeq(available_topics, LAMBDA t : t \notin used_topics)

\* random.choice(l): any element of l.
Choices(l) == { [result |-> StrVal(l[i]), error |-> "none", pool |-> l] : i \in 1..Len(l) }

\* get_unused_topic: the outcomes the call can have.
GetUnusedTopic(hist, channel, available_topics) ==
    LET unused == UnusedList(hist, channel, available_topics)
    IN  IF unused # <<>> THEN Choices(unused)
        ELSE {[result |-> NoneVal, error |-> "none", pool |-> <<>>]}

\* The keys of usage_counts: available_topics without repeats, first occurrence first.
RECURSIVE DictKeys(_)
DictKeys(l) ==
    IF l = <<>> THEN <<>>
    ELSE LET front == DictKeys(SubSeq(l, 1, Len(l) - 1))
         IN  IF \E i \in 1..Len(front) : front[i] = l[Len(l)] THEN front
             ELSE Append(front, l[Len(l)])

\* max() in the place of min().
MaxCount(hist, channel, keys) ==
    CHOOSE m \in { GetUsageCount(hist, channel, keys[i]) : i \in 1..Len(keys) } :
        \A i \in 1..Len(keys) : m >= GetUsageCount(hist, channel, keys[i])

\* min(usage_counts.values()) of a non-empty dict.
MinCount(hist, channel, keys) ==
    CHOOSE m \in { GetUsageCount(hist, channel, keys[i]) : i \in 1..Len(keys) } :
        \A i \in 1..Len(keys) : m <= GetUsageCount(hist, channel, keys[i])

\* get_least_used_topic: the list random.choice draws from.
LeastUsedList(hist, channel, available_topics) ==
    LET keys == DictKeys(available_topics)
        min_count == MinCount(hist, channel, keys)
    IN  SelectSeq(keys, LAMBDA t : GetUsageCount(hist, channel, t) = min_count)

\* get_least_used_topic returning None for an empty list.
GetLeastUsedTopicLenient(hist, channel, available_topics) ==
    IF available_topics = <<>>
    THEN {[result |-> NoneVal, error |-> "none", pool |-> <<>>]}
    ELSE Choices(LeastUsedList(hist, channel, available_topics))

\* get_least_used_topic: the outcomes the call can have; min() of an empty
\* dict raises ValueError.
GetLeastUsedTopic(hist, channel, available_topics) ==
    IF available_topics = <<>>
    THEN {[result |-> NoReturn, error |-> "ValueError", pool |-> <<>>]}
    ELSE Choices(LeastUsedList(hist, channel, available_topics))

\* get_smart_topic: the outcomes the call can have.
GetSmartTopic(hist, channel, available_topics) ==
    UNION { IF Truthy(unused.result) THEN {unused}
            ELSE GetLeastUsedTopic(hist, channel, available_topics) :
            unused \in GetUnusedTopic(hist, channel, available_topics) }

----------------------------------------------------------------------------
(* The store's life: a process starts with some document at cache_file,    *)
(* constructs a TopicCache and records usages while the clock runs; a new  *)
(* construction is a restart.                                              *)

\* No thread has called get_topic_cache(): _cache_instance is None.
NoInstance ==
    /\ instance = 0
    /\ stores = <<>>
    /\ tpc = [t \in Threads |-> "idle"]
    /\ ref = [t \in Threads |-> 0]

Init ==
    /\ NoInstance
    /\ now = T0
    /\ disk \in StartDocs
    /\ history = <<>>
    /\ pc = "start"
    /\ op = [name |-> "start"]
    /\ result = NoneVal
    /\ error = "none"
    /\ pool = <<>>
    /\ writeFailed = FALSE
    /\ calls = <<>>

\* The clock advances.
Tick(d) ==
    /\ DtAdd(now, d) \in Clock
    /\ now' = DtAdd(now, d)
    /\ op' = [name |-> "tick"]
    /\ result' = NoneVal
    /\ error' = "none"
    /\ pool' = <<>>
    /\ UNCHANGED <<disk, history, pc, writeFailed, calls>>
    /\ UNCHANGED sharedVars

\* TopicCache(cache_file): __init__, _load_cache, _cleanup_expired and, when
\* entries were removed, _save_cache.
Construct ==
    LET loaded  == LoadCache(disk)
        err     == CleanupError(loaded)
        kept    == Unexpired(loaded, now)
        removed == Len(loaded) - Len(kept)
    IN  /\ op' = [name |-> "__init__"]
        /\ pool' = <<>>
        /\ UNCHANGED now
        /\ UNCHANGED sharedVars
        /\ IF err # "none"
           THEN /\ pc' = "failed"
                /\ error' = err
                /\ result' = NoReturn
                /\ history' = <<>>
                /\ calls' = <<>>
                /\ writeFailed' = FALSE
                /\ UNCHANGED disk
           ELSE IF removed > 0
           THEN \E outcome \in WriteOutcomes :
                  LET save == SaveCache(kept, now, disk, outcome)
                  IN  /\ disk' = save.disk
                      /\ error' = save.raised
                      /\ pc' = IF save.raised = "none" THEN "ready" ELSE "failed"
                      /\ result' = IF save.raised = "none" THEN NoneVal ELSE NoReturn
                      /\ history' = IF save.raised = "none" THEN kept ELSE <<>>
                      /\ calls' = IF save.raised = "none" THEN Usages(kept) ELSE <<>>
                      /\ writeFailed' = (outcome # "ok")
           ELSE /\ pc' = "ready"
                /\ error' = "none"
                /\ result' = NoneVal
                /\ history' = kept
                /\ calls' = Usages(kept)
                /\ writeFailed' = FALSE
                /\ UNCHANGED disk

\* record_usage taking the record back out of memory when the write fails.
RecordUsageRollback(channel, topic, outcome) ==
    LET appended == Append(history, Entry(channel, topic, isoformat(now)))
        save     == SaveCache(appended, now, disk, outcome)
    IN  /\ pc = "ready"
        /\ Len(history) < MaxHist
        /\ history' = IF outcome = "ok" THEN appended ELSE history
        /\ disk' = save.disk
        /\ error' = save.raised
        /\ result' = NoneVal
        /\ writeFailed' = (writeFailed \/ outcome # "ok")
        /\ calls' = Append(calls, [channel |-> channel, topic |-> topic, at |-> now,
                                    by |-> "record_usage"])
        /\ op' = [name |-> "record_usage", channel |-> channel, topic |-> topic,
                  write |-> outcome]
        /\ pool' = <<>>
        /\ UNCHANGED <<now, pc>>
        /\ UNCHANGED sharedVars

\* record_usage(channel, topic)
RecordUsage(channel, topic, outcome) ==
    LET appended == Append(history, Entry(channel, topic, isoformat(now)))
        save     == SaveCache(appended, now, disk, outcome)
    IN  /\ pc = "ready"
        /\ Len(history) < MaxHist
        /\ history' = appended
        /\ disk' = save.disk
        /\ error' = save.raised
        /\ result' = IF save.raised = "none" THEN NoneVal ELSE NoReturn
        /\ writeFailed' = (writeFailed \/ outcome # "ok")
        /\ calls' = Append(calls, [channel |-> channel, topic |-> topic, at |-> now,
                                    by |-> "record_usage"])
        /\ op' = [name |-> "record_usage", channel |-> channel, topic |-> topic,
                  write |-> outcome]
        /\ pool' = <<>>
        /\ UNCHANGED <<now, pc>>
        /\ UNCHANGED sharedVars

Next ==
    \/ \E d \in {HalfSecond, RetentionDelta} : Tick(d)
    \/ Construct
    \/ \E p \in UsagePairs, o \in WriteOutcomes : RecordUsage(p[1], p[2], o)

Spec == Init /\ [][Next]_vars

----------------------------------------------------------------------------
(* The queries, each applied to a store constructed on a document whose    *)
(* records are all within the retention window, in any stored order.       *)

QueryTimes == {DtSub(T0, DtTimes(HalfSecond, 2)), DtSub(T0, HalfSecond), T0}
QueryEntries ==
    { Entry("chA", t, isoformat(d)) : t \in Topics \ {""}, d \in QueryTimes }
      \cup { Entry("chA", "", isoformat(T0)), Entry("chB", "t1", isoformat(T0)) }
QueryHistories == SeqsUpTo(QueryEntries, MaxQueryHist)
AvailableLists == SeqsUpTo(Topics, MaxAvail)

InitQuery ==
    /\ NoInstance
    /\ now = T0
    /\ history \in QueryHistories
    /\ disk = Doc(isoformat(T0), history)
    /\ pc = "ready"
    /\ op = [name |-> "__init__"]
    /\ result = NoneVal
    /\ error = "none"
    /\ pool = <<>>
    /\ writeFailed = FALSE
    /\ calls = Usages(history)

\* get_usage_count(channel, topic)
UsageCount(channel, topic) ==
    /\ pc = "ready"
    /\ op' = [name |-> "get_usage_count", channel |-> channel, topic |-> topic]
    /\ result' = IntVal(GetUsageCount(history, channel, topic))
    /\ error' = "none"
    /\ pool' = <<>>
    /\ UNCHANGED <<now, disk, history, pc, writeFailed, calls>>
    /\ UNCHANGED sharedVars

\* get_recent_topics sorting self.history itself, not the filtered copy.
RecentTopicsInPlace(channel, limit) ==
    /\ pc = "ready"
    /\ op' = [name |-> "get_recent_topics", channel |-> channel, limit |-> limit]
    /\ history' = SortDesc(history)
    /\ result' = ListVal(GetRecentTopics(history, channel, limit))
    /\ error' = "none"
    /\ pool' = <<>>
    /\ UNCHANGED <<now, disk, pc, writeFailed, calls>>
    /\ UNCHANGED sharedVars

\* get_recent_topics(channel, limit)
RecentTopics(channel, limit) ==
    /\ pc = "ready"
    /\ op' = [name |-> "get_recent_topics", channel |-> channel, limit |-> limit]
    /\ result' = ListVal(GetRecentTopics(history, channel, limit))
    /\ error' = "none"
    /\ pool' = <<>>
    /\ UNCHANGED <<now, disk, history, pc, writeFailed, calls>>
    /\ UNCHANGED sharedVars

\* get_unused_topic(channel, available_topics)
UnusedTopic(channel, available_topics) ==
    /\ pc = "ready"
    /\ op' = [name |-> "get_unused_topic", channel |-> channel,
              available_topics |-> available_topics]
    /\ \E o \in GetUnusedTopic(history, channel, available_topics) :
          /\ result' = o.result
          /\ error' = o.error
          /\ pool' = o.pool
    /\ UNCHANGED <<now, disk, history, pc, writeFailed, calls>>
    /\ UNCHANGED sharedVars

\* get_least_used_topic(channel, available_topics)
LeastUsedTopic(channel, available_topics) ==
    /\ pc = "ready"
    /\ op' = [name |-> "get_least_used_topic", channel |-> channel,
              available_topics |-> available_topics]
    /\ \E o \in GetLeastUsedTopic(history, channel, available_topics) :
          /\ result' = o.result
          /\ error' = o.error
          /\ pool' = o.pool
    /\ UNCHANGED <<now, disk, history, pc, writeFailed, calls>>
    /\ UNCHANGED sharedVars

\* get_smart_topic(channel, available_topics)
SmartTopic(channel, available_topics) ==
    /\ pc = "ready"
    /\ op' = [name |-> "get_smart_topic", channel |-> channel,
              available_topics |-> available_topics]
    /\ \E o \in GetSmartTopic(history, channel, available_topics) :
          /\ result' = o.result
          /\ error' = o.error
          /\ pool' = o.pool
    /\ UNCHANGED <<now, disk, history, pc, writeFailed, calls>>
    /\ UNCHANGED sharedVars

\* One query is applied to the store just constructed.
Fresh == op.name = "__init__"
NextQuery ==
    \/ Fresh /\ \E c \in Channels, t \in Topics : UsageCount(c, t)
    \/ Fresh /\ \E c \in Channels, l \in 0..MaxLimit : RecentTopics(c, l)
    \/ Fresh /\ \E c \in Channels, a \in AvailableLists : UnusedTopic(c, a)
    \/ Fresh /\ \E c \in Channels, a \in AvailableLists : LeastUsedTopic(c, a)
    \/ Fresh /\ \E c \in Channels, a \in AvailableLists : SmartTopic(c, a)

SpecQuery == InitQuery /\ [][NextQuery]_vars

----------------------------------------------------------------------------
(* The process-wide accessor: threads of one process call get_topic_cache() *)
(* and record usages on the TopicCache it returned. A thread can be         *)
(* switched out between any two lines of get_topic_cache().                 *)

\* The documents the process can find at CACHE_FILE, and the usages its
\* threads record.
SharedDocs ==
    {NoFile, Corrupt,
     Doc(isoformat(T0), <<Entry("chA", "t1", isoformat(DtSub(T0, HalfSecond)))>>),
     Doc(isoformat(T0), <<[channel |-> "chA", topic |-> "t1"]>>)}
SharedPairs == {<<"chA", "t1">>, <<"chA", "t2">>}

InitShared ==
    /\ NoInstance
    /\ now = T0
    /\ disk \in SharedDocs
    /\ history = <<>>
    /\ pc = "start"
    /\ op = [name |-> "start"]
    /\ result = NoneVal
    /\ error = "none"
    /\ pool = <<>>
    /\ writeFailed = FALSE
    /\ calls = <<>>

\* A TopicCache object as a returned value.
StoreVal(i) == [kind |-> "TopicCache", val |-> i]

\* get_topic_cache(): the test `if _cache_instance is None`.
TestInstance(t) ==
    /\ tpc[t] = "idle"
    /\ tpc' = [tpc EXCEPT ![t] = IF instance = 0 THEN "create" ELSE "return"]
    /\ op' = [name |-> "get_topic_cache", thread |-> t, at |-> "test"]
    /\ result' = NoneVal
    /\ error' = "none"
    /\ UNCHANGED <<now, disk, history, pc, pool, writeFailed, calls, instance, stores, ref>>

\* get_topic_cache(): `_cache_instance = TopicCache()`. A constructor that
\* raises leaves the global as it was and ends the call.
CreateInstance(t) ==
    LET loaded  == LoadCache(disk)
        err     == CleanupError(loaded)
        kept    == Unexpired(loaded, now)
        removed == Len(loaded) - Len(kept)
    IN  /\ tpc[t] = "create"
        /\ op' = [name |-> "get_topic_cache", thread |-> t, at |-> "create"]
        /\ UNCHANGED <<now, history, pc, pool, calls, ref>>
        /\ IF err # "none"
           THEN /\ tpc' = [tpc EXCEPT ![t] = "idle"]
                /\ error' = err
                /\ result' = NoReturn
                /\ UNCHANGED <<disk, instance, stores, writeFailed>>
           ELSE /\ tpc' = [tpc EXCEPT ![t] = "return"]
                /\ error' = "none"
                /\ result' = NoneVal
                /\ stores' = Append(stores, kept)
                /\ instance' = Len(stores) + 1
                /\ IF removed > 0
                   THEN \E outcome \in WriteOutcomes :
                          /\ disk' = SaveCache(kept, now, disk, outcome).disk
                          /\ writeFailed' = (writeFailed \/ outcome # "ok")
                   ELSE UNCHANGED <<disk, writeFailed>>

\* get_topic_cache(): `return _cache_instance`, the global as it is now.
ReturnInstance(t) ==
    /\ tpc[t] = "return"
    /\ tpc' = [tpc EXCEPT ![t] = "idle"]
    /\ ref' = [ref EXCEPT ![t] = instance]
    /\ op' = [name |-> "get_topic_cache", thread |-> t, at |-> "return"]
    /\ result' = StoreVal(instance)
    /\ error' = "none"
    /\ UNCHANGED <<now, disk, history, pc, pool, writeFailed, calls, instance, stores>>

\* record_usage(channel, topic) on the TopicCache the thread was given.
RecordUsageOn(t, channel, topic, outcome) ==
    LET i        == ref[t]
        appended == Append(stores[i], Entry(channel, topic, isoformat(now)))
        save     == SaveCache(appended, now, disk, outcome)
    IN  /\ tpc[t] = "idle"
        /\ ref[t] # 0
        /\ Len(calls) < MaxSharedCalls
        /\ stores' = [stores EXCEPT ![i] = appended]
        /\ disk' = save.disk
        /\ error' = save.raised
        /\ result' = IF save.raised = "none" THEN NoneVal ELSE NoReturn
        /\ writeFailed' = (writeFailed \/ outcome # "ok")
        /\ calls' = Append(calls, [channel |-> channel, topic |-> topic, at |-> now,
                                    by |-> "record_usage", store |-> i, write |-> outcome])
        /\ op' = [name |-> "record_usage", channel |-> channel, topic |-> topic,
                  write |-> outcome, store |-> i]
        /\ UNCHANGED <<now, history, pc, pool, instance, tpc, ref>>

NextShared ==
    \/ \E t \in Threads : TestInstance(t)
    \/ \E t \in Threads : CreateInstance(t)
    \/ \E t \in Threads : ReturnInstance(t)
    \/ \E t \in Threads, p \in SharedPairs, o \in WriteOutcomes :
          RecordUsageOn(t, p[1], p[2], o)

SpecShared == InitShared /\ [][NextShared]_vars

----------------------------------------------------------------------------
(* The pruning pass on a live store: a store that has been up while the     *)
(* clock moved holds records on both sides of the cutoff, in any order.     *)

OneSecond == [s |-> 1, us |-> 0]
\* The time of the pass: the cutoff is T0.
PruneNow == DtAdd(T0, RetentionDelta)
PruneTimes ==
    {DtSub(T0, OneSecond), DtSub(T0, HalfSecond), T0, DtAdd(T0, HalfSecond),
     DtAdd(T0, OneSecond)}
PruneEntries ==
    { Entry("chA", "t1", isoformat(d)) : d \in PruneTimes }
      \cup { Entry("chB", "t2", isoformat(DtAdd(T0, OneSecond))) }
PruneHistories == SeqsUpTo(PruneEntries, MaxPruneHist)

InitPrune ==
    /\ NoInstance
    /\ now = PruneNow
    /\ history \in PruneHistories
    /\ disk = Doc(isoformat(DtAdd(T0, OneSecond)), history)
    /\ pc = "ready"
    /\ op = [name |-> "tick"]
    /\ result = NoneVal
    /\ error = "none"
    /\ pool = <<>>
    /\ writeFailed = FALSE
    /\ calls = Usages(history)

\* _cleanup_expired that saves whether or not it removed an entry.
CleanupExpiredAlwaysSaving ==
    LET kept    == Unexpired(history, now)
        removed == Len(history) - Len(kept)
    IN  /\ pc = "ready"
        /\ history' = kept
        /\ calls' = Usages(kept)
        /\ result' = NoneVal
        /\ error' = "none"
        /\ pool' = <<>>
        /\ \E outcome \in WriteOutcomes :
              /\ disk' = SaveCache(kept, now, disk, outcome).disk
              /\ writeFailed' = (writeFailed \/ outcome # "ok")
              /\ op' = [name |-> "_cleanup_expired", removed |-> removed,
                        saved |-> TRUE, write |-> outcome]
        /\ UNCHANGED <<now, pc>>
        /\ UNCHANGED sharedVars

\* _cleanup_expired() on a constructed store, whose timestamps all parse.
CleanupExpired ==
    LET kept    == Unexpired(history, now)
        removed == Len(history) - Len(kept)
    IN  /\ pc = "ready"
        /\ history' = kept
        /\ calls' = Usages(kept)
        /\ result' = NoneVal
        /\ error' = "none"
        /\ pool' = <<>>
        /\ IF removed > 0
           THEN \E outcome \in WriteOutcomes :
                  /\ disk' = SaveCache(kept, now, disk, outcome).disk
                  /\ writeFailed' = (writeFailed \/ outcome # "ok")
                  /\ op' = [name |-> "_cleanup_expired", removed |-> removed,
                            saved |-> TRUE, write |-> outcome]
           ELSE /\ op' = [name |-> "_cleanup_expired", removed |-> removed,
                          saved |-> FALSE, write |-> "none"]
                /\ UNCHANGED <<disk, writeFailed>>
        /\ UNCHANGED <<now, pc>>
        /\ UNCHANGED sharedVars

NextPrune ==
    \/ CleanupExpired
    \/ \E d \in {HalfSecond, RetentionDelta} : Tick(d)

SpecPrune == InitPrune /\ [][NextPrune]_vars

----------------------------------------------------------------------------
(* The claims.                                                             *)

Elems(l) == { l[i] : i \in 1..Len(l) }
RecordsOf(c, t) == { i \in 1..Len(history) : history[i].channel = c /\ history[i].topic = t }
UsedBy(c, t) == RecordsOf(c, t) # {}
ZeroUsage(c, available) == { t \in Elems(available) : ~UsedBy(c, t) }
CallsOf(c, t) == { i \in 1..Len(calls) : calls[i].channel = c /\ calls[i].topic = t }
\* The calls of at most 90 days ago.
CallsInWindow(c, t) == { i \in CallsOf(c, t) : ~DtLess(calls[i].at, Cutoff(now)) }
NothingLoaded == \A i \in 1..Len(calls) : calls[i].by = "record_usage"

\* C1: on a store that loaded no record, at any time, get_usage_count(C,T) is
\* the number of record_usage(C,T) calls whose timestamp lies within the last
\* 90 days.
C1_UsageCountInWindow ==
    (pc = "ready" /\ NothingLoaded) =>
        \A c \in Channels, t \in Topics :
            GetUsageCount(history, c, t) = Cardinality(CallsInWindow(c, t))

\* C2: when some available topic has no record for the channel, get_smart_topic
\* returns an available topic with no record for the channel, the empty string
\* included; when there is one such topic, it is the result.
C2_SmartReturnsUnused ==
    (op.name = "get_smart_topic" /\ ZeroUsage(op.channel, op.available_topics) # {}) =>
        /\ error = "none"
        /\ result.kind = "str"
        /\ result.val \in ZeroUsage(op.channel, op.available_topics)
        /\ Cardinality(ZeroUsage(op.channel, op.available_topics)) = 1
              => ZeroUsage(op.channel, op.available_topics) = {result.val}

\* The only unused topic is the empty string, and it is returned.
C2_Witness ==
    /\ op.name = "get_smart_topic"
    /\ Len(op.available_topics) = 2
    /\ ZeroUsage(op.channel, op.available_topics) = {""}
    /\ result = StrVal("")

\* C3: for a non-empty list, get_least_used_topic returns an available topic
\* whose get_usage_count is the minimum over the list, drawn from exactly the
\* topics that achieve the minimum.
C3_LeastUsedIsMinimal ==
    (op.name = "get_least_used_topic" /\ op.available_topics # <<>>) =>
        LET count(t) == GetUsageCount(history, op.channel, t)
            minimal == { t \in Elems(op.available_topics) :
                           \A u \in Elems(op.available_topics) : count(t) <= count(u) }
        IN  /\ error = "none"
            /\ result.kind = "str"
            /\ result.val \in minimal
            /\ Elems(pool) = minimal

\* The result was used once, another available topic twice.
C3_Witness ==
    /\ op.name = "get_least_used_topic"
    /\ result.kind = "str"
    /\ GetUsageCount(history, op.channel, result.val) = 1
    /\ \E u \in Elems(op.available_topics) : GetUsageCount(history, op.channel, u) = 2

\* C4: get_recent_topics(channel, limit) returns at most limit topics, for
\* every limit >= 0.
C4_RecentWithinLimit ==
    op.name = "get_recent_topics" => Len(result.val) <= op.limit

\* The latest time a topic was recorded for a channel.
MostRecent(c, t) ==
    LET at == { fromisoformat(history[i].timestamp) : i \in RecordsOf(c, t) }
    IN  CHOOSE m \in at : \A a \in at : ~DtLess(m, a)

\* x recorded at t1, y at t2, x at t3, with t1 < t2 < t3.
ExampleHistory(c, x, y) ==
    <<Entry(c, x, isoformat(DtSub(T0, DtTimes(HalfSecond, 2)))),
      Entry(c, y, isoformat(DtSub(T0, HalfSecond))),
      Entry(c, x, isoformat(T0))>>

\* C5: get_recent_topics(C, limit) holds no topic twice, only topics recorded
\* for C, in descending order of each topic's latest time for C; x at t1, y at
\* t2, x at t3 yields [x, y].
C5_RecentTopicsOrder ==
    op.name = "get_recent_topics" =>
        LET r == result.val
        IN  /\ \A i, j \in 1..Len(r) : i # j => r[i] # r[j]
            /\ \A i \in 1..Len(r) : UsedBy(op.channel, r[i])
            /\ \A i, j \in 1..Len(r) :
                  i < j => ~DtLess(MostRecent(op.channel, r[i]), MostRecent(op.channel, r[j]))
            /\ (history = ExampleHistory(op.channel, "t1", "t2") /\ op.limit >= 2)
                  => r = <<"t1", "t2">>

C5_Witness ==
    /\ op.name = "get_recent_topics"
    /\ history = ExampleHistory(op.channel, "t1", "t2")
    /\ result = ListVal(<<"t1", "t2">>)

\* The document cannot be read as a history of well-formed records.
Malformed(d) ==
    \/ d.kind = "corrupt"
    \/ /\ d.kind = "doc"
       /\ "history" \in DOMAIN d
       /\ \E i \in 1..Len(d.history) : EntryError(d.history[i]) # "none"

\* C6: constructing a store raises nothing, whatever the document holds; on a
\* malformed document, a record without a parseable timestamp included, the
\* store starts with an empty history.
C6_ConstructionNeverRaises ==
    op.name = "__init__" =>
        /\ error = "none"
        /\ pc = "ready"
        /\ Malformed(disk) => history = <<>>

\* C7: a record_usage whose write fails returns normally, and its record is
\* the last of the in-memory history and counted by get_usage_count and the
\* selection.
C7_WriteFailureKeepsRecord ==
    (op.name = "record_usage" /\ op.write # "ok") =>
        /\ error = "none"
        /\ result = NoneVal
        /\ pc = "ready"
        /\ history # <<>>
        /\ history[Len(history)] = Entry(op.channel, op.topic, isoformat(now))
        /\ GetUsageCount(history, op.channel, op.topic)
              = Cardinality(CallsOf(op.channel, op.topic))
        /\ UnusedList(history, op.channel, <<op.topic>>) = <<>>

C7_Witness ==
    /\ op.name = "record_usage"
    /\ op.write = "dump_failed"
    /\ error = "none"
    /\ Len(history) = 2
    /\ GetUsageCount(history, op.channel, op.topic) = 2

\* C8: get_least_used_topic and get_smart_topic on an empty list raise, return
\* nothing, and leave the in-memory history and the document as they were.
C8_EmptyCandidatesRaise ==
    [][ (op'.name \in {"get_least_used_topic", "get_smart_topic"}
           /\ op'.available_topics = <<>>)
        => /\ error' = "ValueError"
           /\ result' = NoReturn
           /\ history' = history
           /\ disk' = disk ]_vars

C8_Witness ==
    /\ op.name = "get_smart_topic"
    /\ op.available_topics = <<>>
    /\ error = "ValueError"
    /\ history # <<>>

\* C9: get_unused_topic returns None exactly when every available topic has a
\* record for the channel (so for an empty list); otherwise an available topic
\* without a record for the channel, drawn from exactly those topics.
C9_UnusedTopic ==
    op.name = "get_unused_topic" =>
        LET unused == ZeroUsage(op.channel, op.available_topics)
        IN  /\ error = "none"
            /\ result = NoneVal <=> unused = {}
            /\ result # NoneVal => (result.kind = "str" /\ result.val \in unused)
            /\ Elems(pool) = unused

\* Every topic of a non-empty list is used: None.
C9_Witness ==
    /\ op.name = "get_unused_topic"
    /\ Len(op.available_topics) = 2
    /\ op.available_topics[1] # op.available_topics[2]
    /\ result = NoneVal

\* The history a load reads from the document: none for a missing file or a
\* missing history key.
StoredHistory(d) == IF d.kind = "doc" /\ "history" \in DOMAIN d THEN d.history ELSE <<>>

\* C10: with no write failed, whenever the store is at rest the document
\* holds the in-memory history, record for record, also after a load that fell
\* back from an unparseable document.
C10_DiskEqualsMemory ==
    (pc = "ready" /\ ~writeFailed) =>
        /\ disk.kind # "corrupt"
        /\ StoredHistory(disk) = history

\* C10 as amended: the document holds the in-memory history unless it is the
\* unparseable document the load fell back from, which stays as it was while
\* the in-memory history is empty.
C10_DiskEqualsMemoryOrUnparsed ==
    (pc = "ready" /\ ~writeFailed) =>
        IF disk.kind = "corrupt" THEN history = <<>>
        ELSE StoredHistory(disk) = history

C10_Witness ==
    /\ pc = "ready"
    /\ ~writeFailed
    /\ op.name = "record_usage"
    /\ Len(history) = 2
    /\ disk.kind = "doc"
    /\ disk.history = history

\* Every record of the history is newer than the cutoff of time t.
AllInWindow(hist, t) ==
    \A i \in 1..Len(hist) : DtGreater(fromisoformat(hist[i].timestamp), Cutoff(t))
\* The same usages, at the same times, in the same order.
SameUsages(a, b) ==
    /\ Len(a) = Len(b)
    /\ \A i \in 1..Len(a) :
          /\ a[i].channel = b[i].channel
          /\ a[i].topic = b[i].topic
          /\ a[i].at = b[i].at

\* C11: a store constructed on the same location right after a successful
\* save of a history whose records are all within the retention window, with
\* no time change, holds the same records in the same order, each standing for
\* the same usage at the same time.
C11_RoundTrip ==
    [][ (/\ op.name = "record_usage" /\ op.write = "ok"
         /\ AllInWindow(history, now)
         /\ op'.name = "__init__")
        => /\ pc' = "ready"
           /\ error' = "none"
           /\ history' = history
           /\ SameUsages(calls', calls) ]_vars

\* A store reloaded two records, the second written at the current time with
\* a fraction of a second.
C11_Witness ==
    /\ op.name = "__init__"
    /\ pc = "ready"
    /\ Len(history) = 2
    /\ history[2].timestamp = isoformat(now)
    /\ now = DtAdd(T0, HalfSecond)
    /\ disk.kind = "doc"
    /\ disk.history = history

\* C12: at every moment after a store's load completed, whatever the clock
\* did since and whatever was recorded, every record of the in-memory history
\* is at most 90 days old.
C12_HistoryWithinWindow ==
    pc = "ready" =>
        \A i \in 1..Len(history) :
            ~DtLess(fromisoformat(history[i].timestamp), Cutoff(now))

\* C13: however the threads' calls of get_topic_cache() interleave, one
\* TopicCache is constructed and every call returns that one.
C13_OneInstance ==
    /\ Len(stores) <= 1
    /\ \A t, u \in Threads : (ref[t] # 0 /\ ref[u] # 0) => ref[t] = ref[u]

\* C16: the document after a successful write is the writing instance's own
\* history, whatever another instance on the same location appended and
\* persisted before: the last writer wins.
C16_LastWriterWins ==
    (op.name = "record_usage" /\ op.write = "ok") =>
        disk = Doc(isoformat(now), stores[op.store])

\* Two instances, no write failed, and the document lacks a record that one
\* of them appended, persisted and still holds.
C16_Witness ==
    /\ Len(stores) = 2
    /\ ~writeFailed
    /\ disk.kind = "doc"
    /\ \E k \in 1..Len(calls) :
          LET e == Entry(calls[k].channel, calls[k].topic, isoformat(calls[k].at))
          IN  /\ calls[k].write = "ok"
              /\ e \in Elems(stores[calls[k].store])
              /\ e \notin Elems(disk.history)

\* The k-th smallest element of a set of indexes.
KthOf(S, k) == CHOOSE i \in S : Cardinality({ j \in S : j <= i }) = k

\* C14: the pruning pass run at time now keeps exactly the records newer
\* than now - 90 days, in their original relative order; a record stamped
\* at the cutoff or one second before it goes, one stamped one second after
\* it stays.
C14_PruningKeepsNewer ==
    [][ op'.name = "_cleanup_expired" =>
          LET cutoff == Cutoff(now)
              keep == { i \in 1..Len(history) :
                          DtLess(cutoff, fromisoformat(history[i].timestamp)) }
              gone == { isoformat(cutoff), isoformat(DtSub(cutoff, OneSecond)) }
          IN  /\ Len(history') = Cardinality(keep)
              /\ \A k \in 1..Len(history') : history'[k] = history[KthOf(keep, k)]
              /\ \A i \in 1..Len(history) :
                    /\ history[i].timestamp \in gone => history[i] \notin Elems(history')
                    /\ history[i].timestamp = isoformat(DtAdd(cutoff, OneSecond))
                          => history[i] \in Elems(history') ]_vars

\* A pass removed the record at the cutoff and the one a second older and
\* kept the one a second newer.
C14_Witness ==
    /\ op.name = "_cleanup_expired"
    /\ op.removed = 2
    /\ now = PruneNow
    /\ history = <<Entry("chA", "t1", isoformat(DtAdd(Cutoff(now), OneSecond)))>>
    /\ disk.kind = "doc"
    /\ disk.history = history

\* C15: a pruning pass that follows another with no time change removes
\* nothing and does not save; a pass that removes nothing leaves the document
\* as it is; a pass that removes a record saves, and the document written is
\* exactly the kept records.
C15_PruningIdempotent ==
    [][ op'.name = "_cleanup_expired" =>
          /\ op.name = "_cleanup_expired" =>
                (op'.removed = 0 /\ history' = history /\ ~op'.saved /\ disk' = disk)
          /\ op'.removed = 0 => (history' = history /\ ~op'.saved /\ disk' = disk)
          /\ op'.removed > 0 =>
                /\ op'.saved
                /\ op'.write = "ok" => disk' = Doc(isoformat(now), history') ]_vars

\* The second of two passes: the first removed records and saved.
C15_Witness ==
    /\ op.name = "_cleanup_expired"
    /\ op.removed = 0
    /\ ~op.saved
    /\ Len(history) = 1
    /\ disk = Doc(isoformat(now), history)
    /\ now = PruneNow

QueryNames ==
    {"get_usage_count", "get_recent_topics", "get_unused_topic", "get_least_used_topic",
     "get_smart_topic"}

\* C17: get_usage_count, get_recent_topics, get_unused_topic,
\* get_least_used_topic and get_smart_topic, whether they return or raise,
\* leave the in-memory history, the order of its records included, and the
\* persisted document as they were.
C17_QueriesChangeNothing ==
    [][ op'.name \in QueryNames => (history' = history /\ disk' = disk) ]_vars

\* get_recent_topics ran on a history stored oldest first, and the history
\* and the document are still in that order.
C17_Witness ==
    /\ op.name = "get_recent_topics"
    /\ op.limit = 2
    /\ Len(result.val) = 2
    /\ Len(history) = 3
    /\ \A i \in 1..2 : StrLess(history[i].timestamp, history[i + 1].timestamp)
    /\ disk.kind = "doc"
    /\ disk.history = history

\* C18: after a record_usage whose write succeeded, the document holds the
\* whole in-memory history: every record loaded and every record appended
\* since, those whose own write failed included, in order.
C18_NextWriteStoresAll ==
    (op.name = "record_usage" /\ op.write = "ok") =>
        /\ disk.kind = "doc"
        /\ disk.history = history
        /\ Len(disk.history) = Len(calls)
        /\ \A i \in 1..Len(calls) :
              disk.history[i]
                = Entry(calls[i].channel, calls[i].topic, isoformat(calls[i].at))

\* Two records appended to a store that loaded none, the write of the first
\* failed (no pruning can have saved before a window has passed), the write
\* of the second succeeded, and the document holds both.
C18_Witness ==
    /\ op.name = "record_usage"
    /\ op.write = "ok"
    /\ writeFailed
    /\ NothingLoaded
    /\ now = T0
    /\ Len(calls) = 2
    /\ disk.kind = "doc"
    /\ Len(disk.history) = 2

\* The records of one channel, in their stored order.
ChannelOnly(hist, c) == SelectSeq(hist, LAMBDA e : e.channel = c)
Outcome == [result |-> result, error |-> error, pool |-> pool]

\* C19: a query for channel C has the result, and a random selector the set
\* of possible results, that it has on the history with every record of
\* another channel taken out; so two histories with the same records for C
\* give the same results for C.
C19_ChannelIndependence ==
    op.name \in QueryNames =>
        LET c   == op.channel
            own == ChannelOnly(history, c)
        IN  CASE op.name = "get_usage_count" ->
                   result = IntVal(GetUsageCount(own, c, op.topic))
              [] op.name = "get_recent_topics" ->
                   result = ListVal(GetRecentTopics(own, c, op.limit))
              [] op.name = "get_unused_topic" ->
                   /\ GetUnusedTopic(history, c, op.available_topics)
                        = GetUnusedTopic(own, c, op.available_topics)
                   /\ Outcome \in GetUnusedTopic(own, c, op.available_topics)
              [] op.name = "get_least_used_topic" ->
                   /\ GetLeastUsedTopic(history, c, op.available_topics)
                        = GetLeastUsedTopic(own, c, op.available_topics)
                   /\ Outcome \in GetLeastUsedTopic(own, c, op.available_topics)
              [] op.name = "get_smart_topic" ->
                   /\ GetSmartTopic(history, c, op.available_topics)
                        = GetSmartTopic(own, c, op.available_topics)
                   /\ Outcome \in GetSmartTopic(own, c, op.available_topics)

\* chA used t2, chB used t1: the least used of [t1, t2] for chA is t1 alone.
C19_Witness ==
    /\ op.name = "get_least_used_topic"
    /\ op.channel = "chA"
    /\ op.available_topics = <<"t1", "t2">>
    /\ \E i \in 1..Len(history) : history[i].channel = "chB" /\ history[i].topic = "t1"
    /\ GetUsageCount(history, "chA", "t2") = 1
    /\ pool = <<"t1">>
    /\ result = StrVal("t1")

====
